---- MODULE Spec2Model ----
(***************************************************************************)
(* The notebook "Python使用SparkALS矩阵分解实现电影推荐" as a state machine.     *)
(* The state is the file system the notebook reads and writes plus the     *)
(* variables of the notebook kernel; one action per code cell, taken in     *)
(* the order of the cells (Run All).                                        *)
(*                                                                         *)
(* Numbers: a factor component is a float whose value is a small integer   *)
(* (-1.0, 0.0, 1.0); files hold text, a sequence of one-character strings. *)
(* A similarity is kept exactly as the pair (num, den) with                *)
(* num / den = sign(u.x) * (u.x)^2 / (|u|^2 |x|^2), the signed square of   *)
(* the cosine, which orders as the cosine does; den = 0 is NaN.            *)
(***************************************************************************)
EXTENDS Integers, Sequences, FiniteSets, TLC

\* ----------------------------------------------------------------- bounds
\* Users of the data sets are 1..MaxUser, movies 1..MaxItem.
MaxUser == 2
MaxItem == 12
\* Length of a factor vector (ALS's rank).
Rank == 2
\* The factorization is opaque: its result is one of MaxSeed + 1 tables.
MaxSeed == 2
\* The post-processing cells are run at most MaxRuns times.
MaxRuns == 2
\* A vector of an embedding file is multiplied by a constant in 2..MaxScale.
MaxScale == 2

\* .head(10)
TopK == 10

Users == 1..MaxUser
Items == 1..MaxItem

\* ------------------------------------------------------- sequence helpers
RECURSIVE SeqSum(_)
SeqSum(s) == IF s = <<>> THEN 0 ELSE Head(s) + SeqSum(Tail(s))

RECURSIVE Concat(_)
\* The concatenation of a sequence of sequences.
Concat(ss) == IF ss = <<>> THEN <<>> ELSE Head(ss) \o Concat(Tail(ss))

RECURSIVE Join(_, _)
\* sep.join(ss)
Join(ss, sep) ==
    IF ss = <<>> THEN <<>>
    ELSE IF Len(ss) = 1 THEN Head(ss)
    ELSE Head(ss) \o sep \o Join(Tail(ss), sep)

RECURSIVE SelectRows(_, _)
\* The rows of table t, in order, whose position is in the set keep
\* (a boolean mask applied to a dataframe).
SelectRows(t, keep) ==
    IF t = <<>> THEN <<>>
    ELSE LET n == Len(t)
             front == SelectRows(SubSeq(t, 1, n - 1), keep)
         IN IF n \in keep THEN Append(front, t[n]) ELSE front

Range(s) == {s[i] : i \in DOMAIN s}

\* ------------------------------------------------------- text of a number
Digits == <<"0", "1", "2", "3", "4", "5", "6", "7", "8", "9">>

DigitVal(c) == (CHOOSE i \in 1..10 : Digits[i] = c) - 1

IsDigit(c) == \E i \in 1..10 : Digits[i] = c

RECURSIVE NatStr(_)
\* str(n) of an int n >= 0
NatStr(n) == IF n < 10 THEN <<Digits[n + 1]>>
             ELSE NatStr(n \div 10) \o <<Digits[(n % 10) + 1]>>

IntStr(n) == IF n < 0 THEN <<"-">> \o NatStr(-n) ELSE NatStr(n)

\* A format that loses the sign (mutant of FloatRepr).
FloatReprUnsigned(x) == NatStr(IF x < 0 THEN -x ELSE x) \o <<".", "0">>

\* repr of a Python float with an integral value: 1.0, -1.0, 0.0
FloatRepr(x) == IntStr(x) \o <<".", "0">>

\* str(list of floats): "[a, b, c]"
ListStr(v) ==
    <<"[">> \o Join([i \in 1..Len(v) |-> FloatRepr(v[i])], <<",", " ">>) \o <<"]">>

\* ------------------------------------------------------------ writing csv
\* csv.QUOTE_MINIMAL: a field is quoted when it holds the delimiter or a quote.
CsvField(txt) ==
    IF \E i \in DOMAIN txt : txt[i] \in {",", "\""}
    THEN <<"\"">> \o txt \o <<"\"">>
    ELSE txt

\* The header line of DataFrame.to_csv(index=False) for columns id, features.
CsvHeader == <<"id", ",", "features">>

\* One (id, features) row, features being a Python list of floats.
CsvLine(row) == IntStr(row.id) \o <<",">> \o CsvField(ListStr(row.features))

\* factors.select("id", "features").toPandas().to_csv(path, index=False)
ToCsv(factors) ==
    <<CsvHeader>> \o [i \in 1..Len(factors) |-> CsvLine(factors[i])]

\* ------------------------------------------------------------ reading csv
RECURSIVE CsvScan(_, _, _, _)
\* The fields of a line: split at the commas outside quotes, quotes removed.
CsvScan(line, inQuote, cur, done) ==
    IF line = <<>> THEN Append(done, cur)
    ELSE LET c == Head(line)
             rest == Tail(line)
         IN IF c = "\"" THEN CsvScan(rest, ~inQuote, cur, done)
            ELSE IF c = "," /\ ~inQuote THEN CsvScan(rest, inQuote, <<>>, Append(done, cur))
            ELSE CsvScan(rest, inQuote, Append(cur, c), done)

CsvSplit(line) == CsvScan(line, FALSE, <<>>, <<>>)

RECURSIVE NatVal(_)
\* The value of a non-empty string of digits.
NatVal(txt) ==
    IF Len(txt) = 1 THEN DigitVal(txt[1])
    ELSE 10 * NatVal(SubSeq(txt, 1, Len(txt) - 1)) + DigitVal(txt[Len(txt)])

IsNatStr(txt) == txt # <<>> /\ \A i \in DOMAIN txt : IsDigit(txt[i])

\* The int64 a column of integers is read as.
IntVal(txt) == IF Head(txt) = "-" THEN -NatVal(Tail(txt)) ELSE NatVal(txt)

\* The position of column name in the header line.
ColumnOf(header, name) ==
    CHOOSE k \in DOMAIN CsvSplit(header) : CsvSplit(header)[k] = <<name>>

\* pd.read_csv of an embedding file: id is inferred int64, features stays text.
ReadEmbeddingCsv(file) ==
    LET header == file[1]
        kId == ColumnOf(header, "id")
        kFe == ColumnOf(header, "features")
    IN [i \in 1..(Len(file) - 1) |->
            LET f == CsvSplit(file[i + 1])
            IN [id |-> IntVal(f[kId]), features |-> f[kFe]]]

\* -------------------------------------------------------------- json.loads
RECURSIVE Strip(_)
\* txt without its leading and trailing blanks.
Strip(txt) ==
    IF txt = <<>> THEN txt
    ELSE IF Head(txt) = " " THEN Strip(Tail(txt))
    ELSE IF txt[Len(txt)] = " " THEN Strip(SubSeq(txt, 1, Len(txt) - 1))
    ELSE txt

RECURSIVE SplitAt(_, _, _, _)
\* txt.split(sep)
SplitAt(txt, sep, cur, done) ==
    IF txt = <<>> THEN Append(done, cur)
    ELSE IF Head(txt) = sep THEN SplitAt(Tail(txt), sep, <<>>, Append(done, cur))
    ELSE SplitAt(Tail(txt), sep, Append(cur, Head(txt)), done)

\* A JSON number -?int(.frac)? ; the floats of the model have an integral value.
IsJsonNumber(txt) ==
    LET body == IF txt # <<>> /\ Head(txt) = "-" THEN Tail(txt) ELSE txt
        parts == SplitAt(body, ".", <<>>, <<>>)
    IN /\ Len(parts) \in {1, 2}
       /\ IsNatStr(parts[1])
       /\ (Len(parts[1]) > 1 => parts[1][1] # "0")
       /\ (Len(parts) = 2 => IsNatStr(parts[2]))

JsonNumber(txt) ==
    LET neg == Head(txt) = "-"
        body == IF neg THEN Tail(txt) ELSE txt
        whole == NatVal(SplitAt(body, ".", <<>>, <<>>)[1])
    IN IF neg THEN -whole ELSE whole

\* json.loads of the text of a list of numbers: [ok, val]; ok = FALSE is
\* json.JSONDecodeError.
JsonLoads(txt) ==
    LET t == Strip(txt)
        inner == Strip(SubSeq(t, 2, Len(t) - 1))
        pieces == SplitAt(inner, ",", <<>>, <<>>)
        elems == [i \in DOMAIN pieces |-> Strip(pieces[i])]
    IN IF Len(t) < 2 \/ t[1] # "[" \/ t[Len(t)] # "]"
       THEN [ok |-> FALSE, val |-> <<>>]
       ELSE IF inner = <<>> THEN [ok |-> TRUE, val |-> <<>>]
       ELSE IF \E i \in DOMAIN elems : ~IsJsonNumber(elems[i])
       THEN [ok |-> FALSE, val |-> <<>>]
       ELSE [ok |-> TRUE, val |-> [i \in DOMAIN elems |-> JsonNumber(elems[i])]]


\* ------------------------------------------------------------- the inputs
RECURSIVE Pow(_, _)
Pow(b, e) == IF e = 0 THEN 1 ELSE b * Pow(b, e - 1)

\* The vectors with components in {-1, 0, 1}, numbered 0 .. 3^Rank - 1 by
\* their base-3 digits.
VecOfNum(n) == [i \in 1..Rank |-> ((n \div Pow(3, i - 1)) % 3) - 1]

\* Number of such vectors other than the zero vector.
NumVecs == Pow(3, Rank) - 1

\* The k-th vector (k in 0 .. NumVecs - 1) that is not the zero vector.
NonZeroVec(k) == VecOfNum(IF k < NumVecs \div 2 THEN k ELSE k + 1)

\* A ratings file: user 1 rated movies 1..p, user 2 rated movies q..MaxItem.
\* Only the columns the notebook's own code reads are kept.
RatingsFile(p, q) ==
    [i \in 1..p |-> [userId |-> 1, movieId |-> i]]
    \o [i \in 1..(MaxItem + 1 - q) |-> [userId |-> MaxUser, movieId |-> q + i - 1]]

RatingsFiles == {RatingsFile(p, q) : p \in 0..3, q \in {1, 4, MaxItem + 1}}

\* A movie metadata file with one record for each of the movies lo..MaxItem.
MoviesFile(lo) ==
    [i \in 1..(MaxItem + 1 - lo) |->
        [movieId |-> lo + i - 1, title |-> <<"title", lo + i - 1>>,
         genres |-> <<"genres", lo + i - 1>>]]

MoviesFiles == {MoviesFile(lo) : lo \in {1, 3}}

\* No file at a path.
NoFile == <<>>

\* ------------------------------------------------------------ ALS(...).fit
RECURSIVE SortedIds(_)
\* The elements of a finite set of integers in ascending order.
SortedIds(S) ==
    IF S = {} THEN <<>>
    ELSE LET m == CHOOSE x \in S : \A y \in S : x <= y
         IN <<m>> \o SortedIds(S \ {m})

Reverse(s) == [i \in 1..Len(s) |-> s[Len(s) + 1 - i]]

\* The table of factors a fit returns for a set of ids: one row per id, each
\* a vector of length Rank that is not zero.  Which vector an id gets and the
\* order of the rows are the library's business: both depend on seed.
FactorTable(ids, seed, shift) ==
    LET asc == SortedIds(ids)
        order == IF seed % 2 = 0 THEN asc ELSE Reverse(asc)
    IN [i \in 1..Len(order) |->
            [id |-> order[i],
             features |-> NonZeroVec((order[i] * (seed + 1) + seed + shift) % NumVecs)]]

\* A fit on a training split that leaves the last record out (mutant of
\* TrainingSet).
TrainingSplit(ratings) == SubSeq(ratings, 1, Len(ratings) - 1)

\* The rating records the factorization is trained on: all of df.
TrainingSet(ratings) == ratings

\* model = als.fit(df): userFactors has the distinct userIds of the training
\* records, itemFactors their distinct movieIds.
AlsFit(ratings, seed) ==
    LET train == TrainingSet(ratings)
    IN [userFactors |-> FactorTable({train[i].userId : i \in DOMAIN train}, seed, 1),
        itemFactors |-> FactorTable({train[i].movieId : i \in DOMAIN train}, seed, 0)]

\* --------------------------------------------------------- post-processing
Dot(u, x) == SeqSum([i \in 1..Len(u) |-> u[i] * x[i]])

NaN == [num |-> 0, den |-> 0]

IsNaN(a) == a.den = 0

\* The inner product without the division by the norms (mutant of CosineSim).
DotSim(u, x) ==
    LET uv == Dot(u, x)
    IN [num |-> IF uv < 0 THEN -(uv * uv) ELSE uv * uv, den |-> 1]

\* 1 - distance.cosine(u, x) = u.x / sqrt(u.u * x.x), kept as its signed
\* square; 0 / 0 is NaN.
CosineSim(u, x) ==
    LET uv == Dot(u, x)
        den == Dot(u, u) * Dot(x, x)
    IN IF den = 0 THEN NaN
       ELSE [num |-> IF uv < 0 THEN -(uv * uv) ELSE uv * uv, den |-> den]

\* a >= b and a > b on similarities that are not NaN.
SimGE(a, b) == a.num * b.den >= b.num * a.den

SimGT(a, b) == a.num * b.den > b.num * a.den

\* Whether row j of t comes before row i after
\* t.sort_values(by="sim_value", ascending=False): NaN last, larger first.
\* The default sort kind is not stable: rows of equal sim_value come in the
\* order the sort implementation of the build leaves them in (flip).
ComesBefore(t, j, i, flip) ==
    LET a == t[j].sim_value
        b == t[i].sim_value
    IN IF IsNaN(a) /\ IsNaN(b) THEN j < i
       ELSE IF IsNaN(b) THEN TRUE
       ELSE IF IsNaN(a) THEN FALSE
       ELSE \/ SimGT(a, b)
            \/ /\ ~SimGT(b, a)
               /\ IF flip THEN j > i ELSE j < i

SortValuesDesc(t, flip) ==
    [p \in 1..Len(t) |->
        t[CHOOSE i \in 1..Len(t) :
            Cardinality({j \in 1..Len(t) : j # i /\ ComesBefore(t, j, i, flip)}) = p - 1]]

\* df.head(n)
HeadRows(t, n) == SubSeq(t, 1, IF Len(t) < n THEN Len(t) ELSE n)

\* A selection that falls back to the whole table when no row matches
\* (mutant of RowsWithId).
RowsWithIdOrAll(t, target) ==
    IF \E i \in 1..Len(t) : t[i].id = target
    THEN SelectRows(t, {i \in 1..Len(t) : t[i].id = target})
    ELSE t

\* df_user_embedding[df_user_embedding["id"] == target]: the matching rows.
RowsWithId(t, target) == SelectRows(t, {i \in 1..Len(t) : t[i].id = target})

\* The movies anyone rated (mutant of WatchedIds: the filter on userId lost).
WatchedIdsAnyUser(ratings, target) ==
    {ratings[i].movieId : i \in 1..Len(ratings)}

\* set(df_rating[df_rating["userId"] == target]["movieId"].unique())
WatchedIds(ratings, target) ==
    {ratings[i].movieId : i \in {k \in 1..Len(ratings) : ratings[k].userId = target}}

\* df_movie_embedding[~df_movie_embedding["id"].isin(watched)]
Unseen(t, watched) == SelectRows(t, {i \in 1..Len(t) : t[i].id \notin watched})

\* ... .sort_values(by="sim_value", ascending=False).head(10)[["id", "sim_value"]]
TargetMovieIds(t, watched, flip) ==
    LET top == HeadRows(SortValuesDesc(Unseen(t, watched), flip), TopK)
    IN [i \in 1..Len(top) |-> [id |-> top[i].id, sim_value |-> top[i].sim_value]]

\* A join without the key condition, how="cross": every left row with every
\* right row (mutant of Merge).
MergeCross(left, right) ==
    Concat([i \in 1..Len(left) |->
        [k \in 1..Len(right) |->
            [movieId |-> right[k].movieId, title |-> right[k].title,
             genres |-> right[k].genres, sim_value |-> left[i].sim_value]]])

\* A join that keeps the order of the right rows instead (mutant of Merge).
MergeRightOrder(left, right) ==
    Concat([k \in 1..Len(right) |->
        LET match == SelectRows(left,
                        {i \in 1..Len(left) : left[i].id = right[k].movieId})
        IN [i \in 1..Len(match) |->
                [movieId |-> right[k].movieId, title |-> right[k].title,
                 genres |-> right[k].genres, sim_value |-> match[i].sim_value]]])

\* pd.merge(left, right, left_on="id", right_on="movieId")[[...]]: an inner
\* join that keeps the order of the left rows; each left row is paired with
\* the right rows of the same key in their order.
Merge(left, right) ==
    Concat([i \in 1..Len(left) |->
        LET match == SelectRows(right,
                        {k \in 1..Len(right) : right[k].movieId = left[i].id})
        IN [k \in 1..Len(match) |->
                [movieId |-> match[k].movieId, title |-> match[k].title,
                 genres |-> match[k].genres, sim_value |-> left[i].sim_value]]])


\* ---------------------------------------------------------------- the state
VARIABLES
    fs,                  \* the files: path -> content
    sortFlip,            \* how the build's unstable sort leaves equal keys
    pc,                  \* the cell to run next, "done" or "error"
    run,                 \* how many times cells 4.1 - 4.6 were started
    err,                 \* the exception that stopped the run, or "none"
    log,                 \* the cells run so far, in order
    df,                  \* Spark dataframe of the training ratings
    model,               \* the fitted ALSModel
    target_user_id,
    df_movie,
    df_movie_embedding,
    df_rating,
    df_user_embedding,
    user_embedding,
    watched_ids,
    df_target_movieIds,
    shown,               \* the table cell 4.6 displays
    prev,                \* what the previous run of 4.1 - 4.6 produced
    fresh                \* what the first run produced, and for which target

kernel == <<df, model, target_user_id, df_movie, df_movie_embedding, df_rating,
            df_user_embedding, user_embedding, watched_ids, df_target_movieIds,
            shown>>

vars == <<fs, sortFlip, pc, run, err, log, kernel, prev, fresh>>

\* The cells in notebook order.
Cells == <<"load", "fit", "save_user", "save_item", "target", "read",
           "vectorize", "lookup", "sim", "watched", "top", "merge">>

\* An order in which the files are read before they are written (mutant of
\* NextCell): cells 4.1 moved above the export.
NextCellReadFirst(c) ==
    LET order == <<"load", "fit", "target", "read", "save_user", "save_item",
                   "vectorize", "lookup", "sim", "watched", "top", "merge">>
        k == CHOOSE i \in DOMAIN order : order[i] = c
    IN IF k = Len(order) THEN "done" ELSE order[k + 1]

\* The cell run after cell c has returned (Run All): the next one below it.
NextCell(c) ==
    LET k == CHOOSE i \in DOMAIN Cells : Cells[i] = c
    IN IF k = Len(Cells) THEN "done" ELSE Cells[k + 1]

Init ==
    /\ fs \in [ratings_1m : RatingsFiles \ {<<>>}, ratings : RatingsFiles,
               movies : MoviesFiles,
               user_embedding : {NoFile}, item_embedding : {NoFile}]
    /\ sortFlip \in BOOLEAN
    /\ pc = Cells[1]
    /\ run = 0
    /\ err = "none"
    /\ log = <<>>
    /\ df = <<>>
    /\ model = [userFactors |-> <<>>, itemFactors |-> <<>>]
    /\ target_user_id = 0
    /\ df_movie = <<>>
    /\ df_movie_embedding = <<>>
    /\ df_rating = <<>>
    /\ df_user_embedding = <<>>
    /\ user_embedding = <<>>
    /\ watched_ids = {}
    /\ df_target_movieIds = <<>>
    /\ shown = <<>>
    /\ prev = [ids |-> <<>>, shown |-> <<>>]
    /\ fresh = [target |-> 0, ids |-> <<>>, shown |-> <<>>]

\* Cell c returns normally.
Returns(c) ==
    /\ pc' = NextCell(c)
    /\ log' = Append(log, c)
    /\ err' = err

\* Cell c raises: Run All stops there.
Raises(c, exception) ==
    /\ pc' = "error"
    /\ log' = Append(log, c)
    /\ err' = exception

\* df = spark.read.csv("./datas/ml-latest-small/ratings_1m.csv", ...)
Load ==
    /\ pc = "load"
    /\ df' = fs.ratings_1m
    /\ Returns("load")
    /\ UNCHANGED <<fs, sortFlip, run, prev, fresh, model, target_user_id, df_movie,
                   df_movie_embedding, df_rating, df_user_embedding,
                   user_embedding, watched_ids, df_target_movieIds, shown>>

\* model = als.fit(df)
Fit ==
    /\ pc = "fit"
    /\ \E seed \in 0..MaxSeed : model' = AlsFit(df, seed)
    /\ Returns("fit")
    /\ UNCHANGED <<fs, sortFlip, run, prev, fresh, df, target_user_id, df_movie,
                   df_movie_embedding, df_rating, df_user_embedding,
                   user_embedding, watched_ids, df_target_movieIds, shown>>

\* model.userFactors ... .to_csv('./datas/movielens_sparkals_user_embedding.csv')
SaveUser ==
    /\ pc = "save_user"
    /\ fs' = [fs EXCEPT !.user_embedding = ToCsv(model.userFactors)]
    /\ Returns("save_user")
    /\ UNCHANGED <<sortFlip, run, prev, fresh, kernel>>

\* model.itemFactors ... .to_csv('./datas/movielens_sparkals_item_embedding.csv')
SaveItem ==
    /\ pc = "save_item"
    /\ fs' = [fs EXCEPT !.item_embedding = ToCsv(model.itemFactors)]
    /\ Returns("save_item")
    /\ UNCHANGED <<sortFlip, run, prev, fresh, kernel>>

\* target_user_id = 1; the id is the notebook's parameter.
SetTarget ==
    /\ pc = "target"
    /\ \E u \in Users : target_user_id' = u
    /\ Returns("target")
    /\ UNCHANGED <<fs, sortFlip, run, prev, fresh, df, model, df_movie,
                   df_movie_embedding, df_rating, df_user_embedding,
                   user_embedding, watched_ids, df_target_movieIds, shown>>

\* 4.1: the four pd.read_csv calls; a missing file is FileNotFoundError.
Read ==
    /\ pc = "read"
    /\ run' = run + 1
    /\ IF fs.item_embedding = NoFile \/ fs.user_embedding = NoFile
       THEN /\ Raises("read", "FileNotFoundError")
            /\ UNCHANGED <<df_movie, df_movie_embedding, df_rating, df_user_embedding>>
       ELSE /\ df_movie' = fs.movies
            /\ df_movie_embedding' = ReadEmbeddingCsv(fs.item_embedding)
            /\ df_rating' = fs.ratings
            /\ df_user_embedding' = ReadEmbeddingCsv(fs.user_embedding)
            /\ Returns("read")
    /\ UNCHANGED <<fs, sortFlip, prev, fresh, df, model, target_user_id,
                   user_embedding, watched_ids, df_target_movieIds, shown>>

\* df["features"].map(lambda x : np.array(json.loads(x)))
Vectorized(t) ==
    [i \in 1..Len(t) |-> [id |-> t[i].id, features |-> JsonLoads(t[i].features).val]]

AllParse(t) == \A i \in 1..Len(t) : JsonLoads(t[i].features).ok

\* 4.1, second cell: the features of both tables from text to vectors.
Vectorize ==
    /\ pc = "vectorize"
    /\ IF AllParse(df_movie_embedding) /\ AllParse(df_user_embedding)
       THEN /\ df_movie_embedding' = Vectorized(df_movie_embedding)
            /\ df_user_embedding' = Vectorized(df_user_embedding)
            /\ Returns("vectorize")
       ELSE /\ Raises("vectorize", "JSONDecodeError")
            /\ UNCHANGED <<df_movie_embedding, df_user_embedding>>
    /\ UNCHANGED <<fs, sortFlip, run, prev, fresh, df, model, target_user_id, df_movie,
                   df_rating, user_embedding, watched_ids, df_target_movieIds,
                   shown>>

\* 4.2: user_embedding = df_user_embedding[... == target_user_id].iloc[0, 1];
\* .iloc[0, 1] of a frame without rows is IndexError.
Lookup ==
    /\ pc = "lookup"
    /\ LET rows == RowsWithId(df_user_embedding, target_user_id)
       IN IF rows = <<>>
          THEN /\ Raises("lookup", "IndexError")
               /\ UNCHANGED user_embedding
          ELSE /\ user_embedding' = rows[1].features
               /\ Returns("lookup")
    /\ UNCHANGED <<fs, sortFlip, run, prev, fresh, df, model, target_user_id, df_movie,
                   df_movie_embedding, df_rating, df_user_embedding,
                   watched_ids, df_target_movieIds, shown>>

\* An assignment that keeps a sim_value column the table already has (mutant
\* of WithSimValue).
WithSimValueIfMissing(t, u) ==
    [i \in 1..Len(t) |->
        [id |-> t[i].id, features |-> t[i].features,
         sim_value |-> IF "sim_value" \in DOMAIN t[i] THEN t[i].sim_value
                       ELSE CosineSim(u, t[i].features)]]

\* df_movie_embedding["sim_value"] = df_movie_embedding["features"].map(...)
WithSimValue(t, u) ==
    [i \in 1..Len(t) |->
        [id |-> t[i].id, features |-> t[i].features,
         sim_value |-> CosineSim(u, t[i].features)]]

\* 4.3
Sim ==
    /\ pc = "sim"
    /\ df_movie_embedding' = WithSimValue(df_movie_embedding, user_embedding)
    /\ Returns("sim")
    /\ UNCHANGED <<fs, sortFlip, run, prev, fresh, df, model, target_user_id, df_movie,
                   df_rating, df_user_embedding, user_embedding, watched_ids,
                   df_target_movieIds, shown>>

\* 4.4
Watched ==
    /\ pc = "watched"
    /\ watched_ids' = WatchedIds(df_rating, target_user_id)
    /\ Returns("watched")
    /\ UNCHANGED <<fs, sortFlip, run, prev, fresh, df, model, target_user_id, df_movie,
                   df_movie_embedding, df_rating, df_user_embedding,
                   user_embedding, df_target_movieIds, shown>>

\* A sort whose order of equal keys changes from call to call (mutant of
\* TieOrder).
TieOrderPerCall(r) == IF r = 1 THEN sortFlip ELSE ~sortFlip

\* The order sort_values leaves equal keys in, in the r-th run of cell 4.5:
\* that of the build's sort implementation, the same in every call.
TieOrder(r) == sortFlip

\* 4.5
Top ==
    /\ pc = "top"
    /\ df_target_movieIds' =
           TargetMovieIds(df_movie_embedding, watched_ids, TieOrder(run))
    /\ Returns("top")
    /\ UNCHANGED <<fs, sortFlip, run, prev, fresh, df, model, target_user_id, df_movie,
                   df_movie_embedding, df_rating, df_user_embedding,
                   user_embedding, watched_ids, shown>>

\* 4.6
MergeCell ==
    /\ pc = "merge"
    /\ shown' = Merge(df_target_movieIds, df_movie)
    /\ Returns("merge")
    /\ UNCHANGED <<fs, sortFlip, run, prev, fresh, df, model, target_user_id, df_movie,
                   df_movie_embedding, df_rating, df_user_embedding,
                   user_embedding, watched_ids, df_target_movieIds>>

\* Cells 4.1 - 4.6 are run once more, on the same files and the same target.
Again ==
    /\ pc = "done"
    /\ run < MaxRuns
    /\ prev' = [ids |-> df_target_movieIds, shown |-> shown]
    /\ pc' = "read"
    /\ UNCHANGED <<fs, sortFlip, run, err, log, kernel, fresh>>

\* target_user_id is set to another user and cells 4.2 - 4.6 are run again
\* in the same kernel, on the tables cell 4.1 has read.
NextUser ==
    /\ pc = "done"
    /\ run <= MaxRuns
    /\ \E u \in Users \ {target_user_id} : target_user_id' = u
    /\ fresh' = IF fresh.target = 0
                THEN [target |-> target_user_id, ids |-> df_target_movieIds,
                      shown |-> shown]
                ELSE fresh
    /\ prev' = [ids |-> df_target_movieIds, shown |-> shown]
    /\ run' = run + 1
    /\ log' = Append(log, "target")
    /\ pc' = "lookup"
    /\ UNCHANGED <<fs, sortFlip, err, df, model, df_movie, df_movie_embedding,
                   df_rating, df_user_embedding, user_embedding, watched_ids,
                   df_target_movieIds, shown>>

Next ==
    \/ Load
    \/ Fit
    \/ SaveUser
    \/ SaveItem
    \/ SetTarget
    \/ Read
    \/ Vectorize
    \/ Lookup
    \/ Sim
    \/ Watched
    \/ Top
    \/ MergeCell
    \/ Again

Spec == Init /\ [][Next]_vars

\* The (id, features) rows of an embedding table, the vector of the row at
\* position k multiplied by c.
ScaledAt(t, k, c) ==
    [i \in 1..Len(t) |->
        [id |-> t[i].id,
         features |-> [j \in 1..Len(t[i].features) |->
                          IF i = k THEN c * t[i].features[j] ELSE t[i].features[j]]]]

\* Cells 4.1 - 4.6 are run once more for the same target, on a user embedding
\* file in which the target's vector is a positive multiple of what it was.
RescaleUser ==
    /\ pc = "done"
    /\ run < MaxRuns
    /\ fresh.target = 0
    /\ \E c \in 2..MaxScale : \E k \in DOMAIN df_user_embedding :
           /\ df_user_embedding[k].id = target_user_id
           /\ fs' = [fs EXCEPT !.user_embedding = ToCsv(ScaledAt(df_user_embedding, k, c))]
    /\ fresh' = [target |-> target_user_id, ids |-> df_target_movieIds, shown |-> shown]
    /\ pc' = "read"
    /\ UNCHANGED <<sortFlip, run, err, log, kernel, prev>>

\* The same, on an item embedding file in which the vector of one of the
\* first two rows is a positive multiple of what it was.
RescaleItem ==
    /\ pc = "done"
    /\ run < MaxRuns
    /\ fresh.target = 0
    /\ \E c \in 2..MaxScale : \E k \in DOMAIN df_movie_embedding :
           /\ k <= 2
           /\ fs' = [fs EXCEPT !.item_embedding = ToCsv(ScaledAt(df_movie_embedding, k, c))]
    /\ fresh' = [target |-> target_user_id, ids |-> df_target_movieIds, shown |-> shown]
    /\ pc' = "read"
    /\ UNCHANGED <<sortFlip, run, err, log, kernel, prev>>

\* The post-processing on embedding files that differ by the length of a
\* vector.
NextScale ==
    \/ Load
    \/ Fit
    \/ SaveUser
    \/ SaveItem
    \/ SetTarget
    \/ Read
    \/ Vectorize
    \/ Lookup
    \/ Sim
    \/ Watched
    \/ Top
    \/ MergeCell
    \/ RescaleUser
    \/ RescaleItem

SpecScale == Init /\ [][NextScale]_vars

\* One kernel serving several users in turn.
NextUsers ==
    \/ Load
    \/ Fit
    \/ SaveUser
    \/ SaveItem
    \/ SetTarget
    \/ Read
    \/ Vectorize
    \/ Lookup
    \/ Sim
    \/ Watched
    \/ Top
    \/ MergeCell
    \/ NextUser

SpecUsers == Init /\ [][NextUsers]_vars


\* ================================================================ claims
\* The movies user u has a rating record for in the table ratings.
RatedBy(ratings, u) ==
    {m \in Items : \E i \in DOMAIN ratings :
        ratings[i].userId = u /\ ratings[i].movieId = m}

\* Cell 4.5 has just produced df_target_movieIds from the current tables.
Recommended == pc \in {"merge", "done"}

Ids(t) == {t[i].id : i \in DOMAIN t}

IsDescending(t) ==
    \A i, j \in DOMAIN t :
        i < j => /\ ~IsNaN(t[i].sim_value)
                 /\ ~IsNaN(t[j].sim_value)
                 /\ SimGE(t[i].sim_value, t[j].sim_value)

\* C1 (as claimed): no recommended id is a movie the target user has a
\* rating record for, whether in the ratings the factorization was trained
\* on (df) or in the ratings file read by the recommendation step (df_rating).
C1_NoRatedItemRecommended ==
    Recommended =>
        \A i \in DOMAIN df_target_movieIds :
            /\ df_target_movieIds[i].id \notin RatedBy(df, target_user_id)
            /\ df_target_movieIds[i].id \notin RatedBy(df_rating, target_user_id)

\* C2: df_target_movieIds and the table shown after the join are sorted by
\* descending sim_value: each row's sim_value is >= that of every later row.
C2_SortedDescending ==
    /\ Recommended => IsDescending(df_target_movieIds)
    /\ pc = "done" => IsDescending(shown)

\* C2 witness: a finished run whose shown table has several rows, among them
\* two of different sim_value, from a full list of ten.
C2_Witness ==
    /\ pc = "done"
    /\ Len(df_target_movieIds) = TopK
    /\ Len(shown) >= 3
    /\ \E i, j \in DOMAIN shown : SimGT(shown[i].sim_value, shown[j].sim_value)


Min(a, b) == IF a < b THEN a ELSE b

\* The positions of the rows of the item embedding table whose id the target
\* user has no rating record for in df_rating.
UnseenRows ==
    {i \in DOMAIN df_movie_embedding :
        df_movie_embedding[i].id \notin RatedBy(df_rating, target_user_id)}

\* The positions of the unseen rows that were not selected.
LeftOut == {i \in UnseenRows : df_movie_embedding[i].id \notin Ids(df_target_movieIds)}

\* C3: df_target_movieIds has exactly min(10, N) rows, N the number of rows
\* of the item embedding table whose id is not watched; every unseen item
\* left out has a sim_value <= that of every selected item; an item rated
\* only by other users is never excluded (it is selected or left out only
\* because ten rows of at least its sim_value were selected).
C3_TopTenOfUnseen ==
    Recommended =>
        /\ Len(df_target_movieIds) = Min(TopK, Cardinality(UnseenRows))
        /\ Ids(df_target_movieIds) \subseteq {df_movie_embedding[i].id : i \in UnseenRows}
        /\ \A i \in LeftOut : \A k \in DOMAIN df_target_movieIds :
               SimGE(df_target_movieIds[k].sim_value, df_movie_embedding[i].sim_value)
        /\ \A i \in DOMAIN df_movie_embedding :
               LET m == df_movie_embedding[i].id
               IN (/\ m \notin RatedBy(df_rating, target_user_id)
                   /\ \E u \in Users \ {target_user_id} : m \in RatedBy(df_rating, u))
                  => \/ m \in Ids(df_target_movieIds)
                     \/ Len(df_target_movieIds) = TopK

\* C3 witness: more than ten unseen rows, so that some are left out, one of
\* them a movie that only another user rated, and the target user has
\* watched movies of the table.
C3_Witness ==
    /\ Recommended
    /\ Cardinality(UnseenRows) > TopK
    /\ Cardinality(UnseenRows) < Len(df_movie_embedding)
    /\ \E i \in LeftOut :
           \E u \in Users \ {target_user_id} :
               df_movie_embedding[i].id \in RatedBy(df_rating, u)

\* C3 second witness: fewer than ten unseen rows, all of them selected.
C3_WitnessShort ==
    /\ Recommended
    /\ Cardinality(UnseenRows) \in 1..(TopK - 1)
    /\ Len(df_target_movieIds) = Cardinality(UnseenRows)

\* C4 (as claimed): the final table has one row for each id of
\* df_target_movieIds, carrying the title and genres of the metadata record
\* of that movieId, so the movieIds shown are the ids recommended.
C4_EveryRecommendedShown ==
    pc = "done" =>
        /\ {shown[k].movieId : k \in DOMAIN shown} = Ids(df_target_movieIds)
        /\ \A i \in DOMAIN df_target_movieIds :
               Cardinality({k \in DOMAIN shown :
                   shown[k].movieId = df_target_movieIds[i].id}) = 1
        /\ \A k \in DOMAIN shown : \E r \in DOMAIN df_movie :
               /\ df_movie[r].movieId = shown[k].movieId
               /\ df_movie[r].title = shown[k].title
               /\ df_movie[r].genres = shown[k].genres


\* The positions of cell c in the log.
Runs(c) == {i \in DOMAIN log : log[i] = c}

\* Cell b follows cell a in the notebook.
Below(a, b) == \E k \in 1..(Len(Cells) - 1) : Cells[k] = a /\ Cells[k + 1] = b

\* C5: a run is a linear sequence of steps: the factorization is invoked
\* exactly once, both embedding files are written only after it returned,
\* each embedding file is read only after it was completely written in the
\* same run, and every step is the one that follows the step before it.
C5_LinearRun ==
    /\ Cardinality(Runs("fit")) <= 1
    /\ (pc \notin {"load", "fit"} => Cardinality(Runs("fit")) = 1)
    /\ \A w \in Runs("save_user") \cup Runs("save_item") :
           \E f \in Runs("fit") : f < w
    /\ \A r \in Runs("read") :
           /\ \E w \in Runs("save_user") : w < r
           /\ \E w \in Runs("save_item") : w < r
           /\ err # "FileNotFoundError"
           /\ Len(fs.user_embedding) = 1 + Len(model.userFactors)
           /\ Len(fs.item_embedding) = 1 + Len(model.itemFactors)
    /\ \A i \in 1..(Len(log) - 1) :
           \/ Below(log[i], log[i + 1])
           \/ log[i] = "merge" /\ log[i + 1] = "read"
    /\ (log # <<>> => log[1] = Cells[1])

\* C5 witness: the post-processing has read the files and finished.
C5_Witness == pc = "done" /\ Runs("read") # {} /\ Len(shown) > 0

\* Tables a and b hold the same (id, features) rows: the same ids, as many
\* rows, and for every id the same vector, element by element.
SameFactors(a, b) ==
    /\ Len(a) = Len(b)
    /\ Ids(a) = Ids(b)
    /\ \A i \in DOMAIN a : \A j \in DOMAIN b :
           a[i].id = b[j].id =>
               /\ Len(a[i].features) = Len(b[j].features)
               /\ \A k \in DOMAIN a[i].features : a[i].features[k] = b[j].features[k]

\* C6: export followed by import is a round trip: once json.loads has been
\* applied, the user table and the item table read back have the ids, the
\* number of rows and, id by id, the vectors of the factor tables written,
\* each of length Rank.
C6_RoundTrip ==
    "vectorize" \in Range(log) =>
        /\ err # "JSONDecodeError"
        /\ pc \notin {"read", "vectorize"} =>
            /\ SameFactors(df_user_embedding, model.userFactors)
            /\ SameFactors(df_movie_embedding, model.itemFactors)
            /\ \A i \in DOMAIN df_user_embedding : Len(df_user_embedding[i].features) = Rank
            /\ \A i \in DOMAIN df_movie_embedding : Len(df_movie_embedding[i].features) = Rank

\* C6 witness: tables of several rows were read back, with a negative and a
\* positive component among the vectors.
C6_Witness ==
    /\ pc = "lookup"
    /\ Len(df_user_embedding) >= 2
    /\ Len(df_movie_embedding) >= TopK
    /\ \E i \in DOMAIN df_movie_embedding :
           \E k \in 1..Rank : df_movie_embedding[i].features[k] < 0
    /\ \E i \in DOMAIN df_movie_embedding :
           \E k \in 1..Rank : df_movie_embedding[i].features[k] > 0

\* C7 (as claimed): the ratings table read in the recommendation step is the
\* table the factorization was trained on.
C7_SameRatings ==
    "read" \in Range(log) =>
        /\ Len(df_rating) = Len(df)
        /\ \A i \in DOMAIN df_rating : df_rating[i] = df[i]

\* C8: the exported embedding tables cover the training data exactly: one
\* row per distinct userId (movieId) of the training ratings, no id twice.
C8_TablesCoverTraining ==
    (pc \notin {"read", "error"} /\ "read" \in Range(log)) =>
        /\ Ids(df_user_embedding) = {df[i].userId : i \in DOMAIN df}
        /\ Ids(df_movie_embedding) = {df[i].movieId : i \in DOMAIN df}
        /\ Len(df_user_embedding) = Cardinality(Ids(df_user_embedding))
        /\ Len(df_movie_embedding) = Cardinality(Ids(df_movie_embedding))

\* C8 witness: tables for two users and more than ten movies.
C8_Witness ==
    /\ pc = "vectorize"
    /\ Len(df_user_embedding) = 2
    /\ Len(df_movie_embedding) > TopK
    /\ Len(df) > Len(df_movie_embedding)


\* The user embedding table has a row for the target user.
TargetKnown == \E i \in DOMAIN df_user_embedding : df_user_embedding[i].id = target_user_id

\* C9: the lookup returns the vector of the row of the user embedding table
\* whose id is target_user_id; when no row has that id the lookup fails with
\* an error and neither similarity values nor a recommendation list are
\* produced for that user.
C9_LookupOrError ==
    ("lookup" \in Range(log) /\ pc # "vectorize") =>
        IF TargetKnown
        THEN /\ err = "none"
             /\ \E i \in DOMAIN df_user_embedding :
                    /\ df_user_embedding[i].id = target_user_id
                    /\ user_embedding = df_user_embedding[i].features
        ELSE /\ pc = "error"
             /\ err = "IndexError"
             /\ user_embedding = <<>>
             /\ \A i \in DOMAIN df_movie_embedding :
                    "sim_value" \notin DOMAIN df_movie_embedding[i]
             /\ df_target_movieIds = <<>>
             /\ shown = <<>>

\* C9 witness: a cold-start target: it has rating records in the ratings
\* file read by the recommendation step but no row in the user table.
C9_Witness ==
    /\ "lookup" \in Range(log)
    /\ ~TargetKnown
    /\ RatedBy(df_rating, target_user_id) # {}
    /\ Len(df_movie_embedding) > 0

\* C9 second witness: a known target, whose row is not the first of the table.
C9_WitnessKnown ==
    /\ pc = "sim"
    /\ TargetKnown
    /\ df_user_embedding[1].id # target_user_id

PostProcessing == pc \in {"lookup", "sim", "watched", "top", "merge", "done", "error"}

\* The item embedding table still has the rows read from the file, in their
\* order, whatever else was added to them.
ItemRowsKept ==
    LET file == ReadEmbeddingCsv(fs.item_embedding)
    IN /\ Len(df_movie_embedding) = Len(file)
       /\ \A i \in DOMAIN file :
              /\ df_movie_embedding[i].id = file[i].id
              /\ df_movie_embedding[i].features = JsonLoads(file[i].features).val

\* C11: recommending for one user leaves nothing behind for the next: with
\* target_user_id set to another user and cells 4.2 - 4.6 run again, the
\* result is that of a fresh run for that user; the filter, sort, top-10 and
\* join steps neither remove nor reorder rows of the item embedding table,
\* the ratings table or the metadata table, and sim_value and watched_ids
\* are recomputed for the new target.
C11_NothingLeftBehind ==
    /\ (pc = "done" /\ fresh.target = target_user_id) =>
           /\ df_target_movieIds = fresh.ids
           /\ shown = fresh.shown
    /\ ("vectorize" \in Range(log) /\ PostProcessing) =>
           /\ ItemRowsKept
           /\ df_rating = fs.ratings
           /\ df_movie = fs.movies
    /\ pc \in {"watched", "top", "merge", "done"} =>
           /\ TargetKnown
           /\ \A i \in DOMAIN df_movie_embedding :
                  \E k \in DOMAIN df_user_embedding :
                      /\ df_user_embedding[k].id = target_user_id
                      /\ df_movie_embedding[i].sim_value =
                             CosineSim(df_user_embedding[k].features,
                                       df_movie_embedding[i].features)
    /\ pc \in {"top", "merge", "done"} =>
           watched_ids = RatedBy(df_rating, target_user_id)
    /\ pc = "error" => (err = "IndexError" /\ ~TargetKnown)

\* C11 witness: the kernel has served a user, then another whose list was a
\* different one, then the first again.
C11_Witness ==
    /\ pc = "done"
    /\ run >= 3
    /\ fresh.target = target_user_id
    /\ Len(fresh.ids) = TopK
    /\ prev.ids # fresh.ids
    /\ watched_ids # {}


\* The values of column col of table t are pairwise distinct.
Distinct(t, col) == \A i, j \in DOMAIN t : t[i][col] = t[j][col] => i = j

\* C12: no item is recommended twice: the ids of df_target_movieIds are
\* pairwise distinct and each is an id of the item embedding table; the
\* movieIds of the table shown are pairwise distinct, so that table never has
\* more rows than df_target_movieIds.
C12_NoItemTwice ==
    /\ Recommended =>
           /\ Distinct(df_target_movieIds, "id")
           /\ Ids(df_target_movieIds) \subseteq Ids(df_movie_embedding)
    /\ pc = "done" =>
           /\ Distinct(shown, "movieId")
           /\ Len(shown) <= Len(df_target_movieIds)

\* C12 witness: ten movies out of more than ten were recommended and all
\* ten are shown.
C12_Witness ==
    /\ pc = "done"
    /\ Len(df_movie_embedding) > TopK
    /\ Len(df_target_movieIds) = TopK
    /\ Len(shown) = TopK


\* sign(n) * n^2
SignedSquare(n) == IF n < 0 THEN -(n * n) ELSE n * n

\* Similarities a and b are the same number.
SimEq(a, b) == ~IsNaN(a) /\ ~IsNaN(b) /\ a.num * b.den = b.num * a.den

\* Tables a and b have the same keys in the same order with the same
\* sim_value, row by row.
SameRanking(a, b, key) ==
    /\ Len(a) = Len(b)
    /\ \A i \in DOMAIN a :
           /\ a[i][key] = b[i][key]
           /\ SimEq(a[i].sim_value, b[i].sim_value)

\* C13: every row of the item embedding table receives as sim_value the
\* cosine of the angle between the target user's vector and the row's
\* vector: it lies between -1 and 1, and neither the values nor the ranking
\* change when the user vector or an item vector is multiplied by a positive
\* constant.
C13_CosineOfAngle ==
    /\ pc \in {"watched", "top", "merge", "done"} =>
           \A i \in DOMAIN df_movie_embedding :
               LET s == df_movie_embedding[i].sim_value
                   x == df_movie_embedding[i].features
               IN /\ s.den > 0
                  /\ -s.den <= s.num
                  /\ s.num <= s.den
                  /\ s.num * (Dot(user_embedding, user_embedding) * Dot(x, x))
                         = SignedSquare(Dot(user_embedding, x)) * s.den
    /\ (pc = "done" /\ fresh.target # 0) =>
           /\ SameRanking(df_target_movieIds, fresh.ids, "id")
           /\ SameRanking(shown, fresh.shown, "movieId")

\* C13 witness: the run on the rescaled file has finished; its vectors are
\* longer than before, the list is a full one and holds positive and
\* negative sim_values.
C13_Witness ==
    /\ pc = "done"
    /\ fresh.target # 0
    /\ Len(df_target_movieIds) = TopK
    /\ df_target_movieIds # fresh.ids
    /\ \E i \in DOMAIN df_movie_embedding : df_movie_embedding[i].sim_value.num < 0
    /\ \E i \in DOMAIN df_target_movieIds :
           /\ df_target_movieIds[i].sim_value.num > 0
           /\ df_target_movieIds[i].sim_value.num < df_target_movieIds[i].sim_value.den

====
